---- MODULE Spec2Model ----
(***************************************************************************)
(* Model of the relative time expression parser.                           *)
(*                                                                         *)
(*   src/unnamed/part_001      parse with the optional rounding suffix,    *)
(*                             applyOffsetUtc, roundUtc                    *)
(*   src/dateParser/parser.js  parse without rounding, applyOffsetUtc      *)
(*                                                                         *)
(* Strings are sequences of one-character strings.  A Date object is a     *)
(* cell of the heap; its time value t (milliseconds since the epoch) is    *)
(* held as the pair [day |-> t \div msPerDay, tm |-> t % msPerDay], which  *)
(* is the ECMAScript decomposition Day(t), TimeWithinDay(t).               *)
(***************************************************************************)
EXTENDS Integers, Sequences, FiniteSets

(***************************************************************************)
(* ECMAScript time values and the UTC setters the parser calls.            *)
(***************************************************************************)
msPerSecond == 1000
msPerMinute == 60000
msPerHour == 3600000
msPerDay == 86400000

TV(day, tm) == [day |-> day, tm |-> tm]

\* MakeDate(day, time): day * msPerDay + time, kept as (Day, TimeWithinDay).
MakeDate(day, time) == TV(day + (time \div msPerDay), time % msPerDay)

MakeTime(hour, min, sec, ms) ==
    hour * msPerHour + min * msPerMinute + sec * msPerSecond + ms

DaysInYear(y) ==
    IF y % 4 # 0 THEN 365
    ELSE IF y % 100 # 0 THEN 366
    ELSE IF y % 400 # 0 THEN 365
    ELSE 366

DayFromYear(y) ==
    365 * (y - 1970) + ((y - 1969) \div 4) - ((y - 1901) \div 100)
        + ((y - 1601) \div 400)

\* The largest year whose first day is not after the given day.
YearFromDay(day) ==
    CHOOSE y \in (1970 + (day \div 366) - 1)..(1970 + (day \div 365) + 1) :
        DayFromYear(y) <= day /\ day < DayFromYear(y + 1)

InLeapYear(day) == IF DaysInYear(YearFromDay(day)) = 366 THEN 1 ELSE 0

DayWithinYear(day) == day - DayFromYear(YearFromDay(day))

\* Day within the year on which month m (0..11) starts; m = 12 ends the year.
MonthStart(m, leap) ==
    IF m = 0 THEN 0
    ELSE IF m = 1 THEN 31
    ELSE <<59, 90, 120, 151, 181, 212, 243, 273, 304, 334, 365>>[m - 1] + leap

MonthFromDay(day) ==
    LET leap == InLeapYear(day)
        d == DayWithinYear(day)
    IN  CHOOSE m \in 0..11 : MonthStart(m, leap) <= d /\ d < MonthStart(m + 1, leap)

DateFromDay(day) ==
    LET leap == InLeapYear(day)
        d == DayWithinYear(day)
        m == CHOOSE k \in 0..11 : MonthStart(k, leap) <= d /\ d < MonthStart(k + 1, leap)
    IN  d - MonthStart(m, leap) + 1

MakeDay(year, month, date) ==
    LET ym == year + (month \div 12)
        mn == month % 12
        leap == IF DaysInYear(ym) = 366 THEN 1 ELSE 0
    IN  DayFromYear(ym) + MonthStart(mn, leap) + date - 1

getUTCFullYear(t) == YearFromDay(t.day)
getUTCMonth(t) == MonthFromDay(t.day)
getUTCDate(t) == DateFromDay(t.day)
getUTCHours(t) == t.tm \div msPerHour
getUTCMinutes(t) == (t.tm \div msPerMinute) % 60
getUTCSeconds(t) == (t.tm \div msPerSecond) % 60
getUTCMilliseconds(t) == t.tm % msPerSecond

\* The setters take every optional argument; a caller that omits one passes
\* the field's current value, which is the default ECMAScript gives it.
setUTCMilliseconds(t, ms) ==
    MakeDate(t.day, MakeTime(getUTCHours(t), getUTCMinutes(t), getUTCSeconds(t), ms))

setUTCSeconds(t, sec, ms) ==
    MakeDate(t.day, MakeTime(getUTCHours(t), getUTCMinutes(t), sec, ms))

setUTCMinutes(t, min, sec, ms) ==
    MakeDate(t.day, MakeTime(getUTCHours(t), min, sec, ms))

setUTCHours(t, hour, min, sec, ms) ==
    MakeDate(t.day, MakeTime(hour, min, sec, ms))

setUTCDate(t, date) ==
    MakeDate(MakeDay(getUTCFullYear(t), getUTCMonth(t), date), t.tm)

\* A variant that clamps the day to the last day of the target month.
setUTCMonth_clamped(t, month, date) ==
    LET y == getUTCFullYear(t) + (month \div 12)
        m == month % 12
        leap == IF DaysInYear(y) = 366 THEN 1 ELSE 0
        last == MonthStart(m + 1, leap) - MonthStart(m, leap)
    IN  MakeDate(MakeDay(y, m, IF date > last THEN last ELSE date), t.tm)

setUTCMonth(t, month, date) ==
    MakeDate(MakeDay(getUTCFullYear(t), month, date), t.tm)

setUTCFullYear(t, year) ==
    MakeDate(MakeDay(year, getUTCMonth(t), getUTCDate(t)), t.tm)

\* Date.UTC(y, m, d, h, mi, s, ms) with m in 0..11.
UTC(y, m, d, h, mi, s, ms) == MakeDate(MakeDay(y, m, d), MakeTime(h, mi, s, ms))

(***************************************************************************)
(* String primitives.  Indices are 0-based where the source's are.         *)
(***************************************************************************)
Digits == {"0", "1", "2", "3", "4", "5", "6", "7", "8", "9"}

IsWhitespace(c) == c = " "

slice(s, from) == SubSeq(s, from + 1, Len(s))

RECURSIVE trimStart(_)
trimStart(s) ==
    IF s # <<>> /\ IsWhitespace(s[1]) THEN trimStart(Tail(s)) ELSE s

RECURSIVE trimEnd(_)
trimEnd(s) ==
    IF s # <<>> /\ IsWhitespace(s[Len(s)])
    THEN trimEnd(SubSeq(s, 1, Len(s) - 1))
    ELSE s

trim(s) == trimEnd(trimStart(s))

startsWith(s, p) == Len(p) <= Len(s) /\ SubSeq(s, 1, Len(p)) = p

\* First 0-based position at which sub occurs in s, -1 when it does not.
indexOf(s, sub) ==
    LET hits == {i \in 0..(Len(s) - Len(sub)) : SubSeq(s, i + 1, i + Len(sub)) = sub}
    IN  IF hits = {} THEN -1 ELSE CHOOSE i \in hits : \A j \in hits : i <= j

\* s.split(sep): the pieces between every occurrence of the one-character sep.
RECURSIVE splitAll(_, _)
splitAll(s, sep) ==
    LET i == indexOf(s, <<sep>>)
    IN  IF i = -1 THEN <<s>>
        ELSE <<SubSeq(s, 1, i)>> \o splitAll(slice(s, i + 1), sep)

\* s.split(sep, limit): the first limit pieces; the others are dropped.
split(s, sep, limit) ==
    LET all == splitAll(s, sep)
    IN  IF Len(all) <= limit THEN all ELSE SubSeq(all, 1, limit)

DigitValue(c) ==
    CASE c = "0" -> 0 [] c = "1" -> 1 [] c = "2" -> 2 [] c = "3" -> 3
      [] c = "4" -> 4 [] c = "5" -> 5 [] c = "6" -> 6 [] c = "7" -> 7
      [] c = "8" -> 8 [] c = "9" -> 9

NaN == -1

\* parseInt(s, 10): the value of the leading run of digits, NaN without one.
RECURSIVE parseIntFrom(_, _)
parseIntFrom(s, acc) ==
    IF s = <<>> \/ s[1] \notin Digits THEN acc
    ELSE parseIntFrom(Tail(s), 10 * acc + DigitValue(s[1]))

parseInt(s) ==
    IF s = <<>> \/ s[1] \notin Digits THEN NaN ELSE parseIntFrom(s, 0)

(***************************************************************************)
(* The token pattern  /([+-])(\d+)(s|mon|m|h|d|y)/g                        *)
(***************************************************************************)
NOW_TOKEN == <<"n", "o", "w", "(", ")">>

\* The alternatives of the unit group, in the order the pattern tries them.
UnitAlternatives ==
    << <<"s">>, <<"m", "o", "n">>, <<"m">>, <<"h">>, <<"d">>, <<"y">> >>

NullMatch ==
    [found |-> FALSE, index |-> 0, text |-> <<>>, op |-> "", amountStr |-> <<>>,
     unit |-> <<>>]

\* Length of the run of digits of s that starts at 0-based position i.
RECURSIVE digitRun(_, _)
digitRun(s, i) ==
    IF i < Len(s) /\ s[i + 1] \in Digits THEN 1 + digitRun(s, i + 1) ELSE 0

\* The first alternative of the unit group that occurs at position i, <<>> if none.
unitAt(s, i) ==
    LET ok == {k \in 1..Len(UnitAlternatives) :
                  LET u == UnitAlternatives[k]
                  IN  i + Len(u) <= Len(s) /\ SubSeq(s, i + 1, i + Len(u)) = u}
    IN  IF ok = {} THEN <<>>
        ELSE UnitAlternatives[CHOOSE k \in ok : \A j \in ok : k <= j]

\* The pattern anchored at position p.  \d+ is greedy, and giving a digit back
\* leaves a digit where the unit must start, so only the whole run can match.
matchAt(s, p) ==
    IF p < Len(s) /\ s[p + 1] \in {"+", "-"}
    THEN LET n == digitRun(s, p + 1)
             u == unitAt(s, p + 1 + n)
         IN  IF n > 0 /\ u # <<>>
             THEN [found |-> TRUE, index |-> p,
                   text |-> SubSeq(s, p + 1, p + 1 + n + Len(u)),
                   op |-> s[p + 1],
                   amountStr |-> SubSeq(s, p + 2, p + 1 + n),
                   unit |-> u]
             ELSE NullMatch
    ELSE NullMatch

\* tokenRegex.exec(s) with the pattern's lastIndex at from: the leftmost match
\* at or after from, wherever in s it starts.
exec(s, from) ==
    LET hits == {p \in from..(Len(s) - 1) : matchAt(s, p).found}
    IN  IF hits = {} THEN NullMatch
        ELSE matchAt(s, CHOOSE p \in hits : \A q \in hits : p <= q)

(***************************************************************************)
(* Date objects: the heap maps a reference (1..Len) to a time value.       *)
(***************************************************************************)
\* new Date(ms)
newDate(h, t) == [heap |-> Append(h, t), ref |-> Len(h) + 1]

\* A variant that takes the unit m for months.
offsetTime_minutesAsMonths(t, delta, unit) ==
    CASE unit = <<"s">> -> setUTCSeconds(t, getUTCSeconds(t) + delta, getUTCMilliseconds(t))
      [] unit = <<"h">> ->
            setUTCHours(t, getUTCHours(t) + delta, getUTCMinutes(t), getUTCSeconds(t),
                        getUTCMilliseconds(t))
      [] unit = <<"d">> -> setUTCDate(t, getUTCDate(t) + delta)
      [] unit \in {<<"m">>, <<"m", "o", "n">>} ->
            setUTCMonth(t, getUTCMonth(t) + delta, getUTCDate(t))
      [] unit = <<"y">> -> setUTCFullYear(t, getUTCFullYear(t) + delta)

offsetTime(t, delta, unit) ==
    CASE unit = <<"s">> -> setUTCSeconds(t, getUTCSeconds(t) + delta, getUTCMilliseconds(t))
      [] unit = <<"m">> ->
            setUTCMinutes(t, getUTCMinutes(t) + delta, getUTCSeconds(t),
                          getUTCMilliseconds(t))
      [] unit = <<"h">> ->
            setUTCHours(t, getUTCHours(t) + delta, getUTCMinutes(t), getUTCSeconds(t),
                        getUTCMilliseconds(t))
      [] unit = <<"d">> -> setUTCDate(t, getUTCDate(t) + delta)
      [] unit = <<"m", "o", "n">> -> setUTCMonth(t, getUTCMonth(t) + delta, getUTCDate(t))
      [] unit = <<"y">> -> setUTCFullYear(t, getUTCFullYear(t) + delta)

\* A variant that sets the fields of the Date it is given.
applyOffsetUtc_inPlace(h, date, delta, unit) ==
    [heap |-> [h EXCEPT ![date] = offsetTime(h[date], delta, unit)], ref |-> date]

\* applyOffsetUtc(date, delta, unit): copies date, sets the copy's field, returns
\* the copy.  The units the pattern can match are the six of the switch.
applyOffsetUtc(h, date, delta, unit) ==
    LET d == newDate(h, h[date])
    IN  [heap |-> [d.heap EXCEPT ![d.ref] = offsetTime(d.heap[d.ref], delta, unit)],
         ref |-> d.ref]

RoundUnits == {<<"s">>, <<"m">>, <<"h">>, <<"d">>, <<"m", "o", "n">>, <<"y">>}

\* The month index from which the "y" case of roundUtc rounds up.
RoundUpMonth == 6

\* The "y" case rounding up one month index earlier.
roundYear_fromJune(t) ==
    LET t1 == IF getUTCMonth(t) >= RoundUpMonth - 1
              THEN setUTCFullYear(t, getUTCFullYear(t) + 1) ELSE t
        t2 == setUTCMonth(t1, 0, 1)
    IN  setUTCHours(t2, 0, 0, 0, 0)

roundYear(t) ==
    LET t1 == IF getUTCMonth(t) >= RoundUpMonth
              THEN setUTCFullYear(t, getUTCFullYear(t) + 1) ELSE t
        t2 == setUTCMonth(t1, 0, 1)
    IN  setUTCHours(t2, 0, 0, 0, 0)

roundMonth(t) ==
    LET t1 == IF getUTCDate(t) > 15
              THEN setUTCMonth(t, getUTCMonth(t) + 1, getUTCDate(t)) ELSE t
        t2 == setUTCDate(t1, 1)
    IN  setUTCHours(t2, 0, 0, 0, 0)

roundTime(t, unit) ==
    CASE unit = <<"s">> ->
            LET t1 == IF getUTCMilliseconds(t) >= 500
                      THEN setUTCSeconds(t, getUTCSeconds(t) + 1, getUTCMilliseconds(t))
                      ELSE t
            IN  setUTCMilliseconds(t1, 0)
      [] unit = <<"m">> ->
            LET t1 == IF getUTCSeconds(t) >= 30
                      THEN setUTCMinutes(t, getUTCMinutes(t) + 1, getUTCSeconds(t),
                                         getUTCMilliseconds(t))
                      ELSE t
            IN  setUTCSeconds(t1, 0, 0)
      [] unit = <<"h">> ->
            LET t1 == IF getUTCMinutes(t) >= 30
                      THEN setUTCHours(t, getUTCHours(t) + 1, getUTCMinutes(t),
                                       getUTCSeconds(t), getUTCMilliseconds(t))
                      ELSE t
            IN  setUTCMinutes(t1, 0, 0, 0)
      [] unit = <<"d">> ->
            LET t1 == IF getUTCHours(t) >= 12
                      THEN setUTCDate(t, getUTCDate(t) + 1) ELSE t
            IN  setUTCHours(t1, 0, 0, 0, 0)
      [] unit = <<"m", "o", "n">> -> roundMonth(t)
      [] unit = <<"y">> -> roundYear(t)

\* roundUtc(date, unit, expression): copies date, then rounds the copy; a unit
\* outside the switch throws after the copy was made.
roundUtc(h, date, unit) ==
    LET d == newDate(h, h[date])
    IN  IF unit \in RoundUnits
        THEN [heap |-> [d.heap EXCEPT ![d.ref] = roundTime(d.heap[d.ref], unit)],
              ref |-> d.ref, threw |-> FALSE]
        ELSE [heap |-> d.heap, ref |-> d.ref, threw |-> TRUE]

(***************************************************************************)
(* Inputs of a call parse(expression, { now })                             *)
(***************************************************************************)
MaxPieces == 3
MaxYears == 2

RECURSIVE Concat(_)
Concat(ps) == IF ps = <<>> THEN <<>> ELSE Head(ps) \o Concat(Tail(ps))

\* Sequences of at most n elements of S.
RECURSIVE SeqsUpTo(_, _)
SeqsUpTo(S, n) ==
    IF n = 0 THEN {<<>>}
    ELSE LET shorter == SeqsUpTo(S, n - 1)
         IN  shorter \cup {Append(q, x) : q \in shorter, x \in S}

Plus1d == <<"+", "1", "d">>
Minus1d == <<"-", "1", "d">>
Minus2d == <<"-", "2", "d">>
Plus10d == <<"+", "1", "0", "d">>
Plus12h == <<"+", "1", "2", "h">>
Plus25h == <<"+", "2", "5", "h">>
Plus15m == <<"+", "1", "5", "m">>
Plus30s == <<"+", "3", "0", "s">>
Minus90s == <<"-", "9", "0", "s">>
Plus1mon == <<"+", "1", "m", "o", "n">>
Minus1mon == <<"-", "1", "m", "o", "n">>
Plus13mon == <<"+", "1", "3", "m", "o", "n">>
Plus1y == <<"+", "1", "y">>
JunkXYZ == <<"X", "Y", "Z">>
CaretD == <<"^", "d">>
CaretMon == <<"^", "m", "o", "n">>
CaretY == <<"^", "y">>

\* Well-formed tokens, junk and rounding suffixes, put together in any order.
SyntaxPieces ==
    {Plus1d, Minus2d, Plus12h, Plus1mon, JunkXYZ, <<")">>, <<"2", "h">>, <<"+">>,
     CaretD, <<"^">>, <<" ">>}

SyntaxExpressions == {NOW_TOKEN \o Concat(ps) : ps \in SeqsUpTo(SyntaxPieces, MaxPieces)}

\* Expressions that do not begin with the marker, or begin with whitespace.
MarkerExpressions ==
    {pre \o p : pre \in {<<"l", "a", "t", "e", "r", "(", ")">>, <<"N", "o", "w", "(", ")">>,
                         <<"n", "o", "w">>, <<" ">> \o NOW_TOKEN, <<>>},
                p \in {<<>>, Plus1d, JunkXYZ, CaretD, <<" ">>}}

TimePieces ==
    {Plus30s, Minus90s, Plus15m, Plus12h, Plus25h, Plus10d, Minus1d, Minus2d, Plus1d,
     <<"^", "s">>, <<"^", "m">>, <<"^", "h">>, CaretD}

TimeExpressions == {NOW_TOKEN \o Concat(ps) : ps \in SeqsUpTo(TimePieces, 2)}

CalendarExpressions ==
    {NOW_TOKEN \o Concat(ps) :
        ps \in { <<>>, <<CaretMon>>, <<CaretY>>, <<Plus1mon>>, <<Minus1mon>>,
                 <<Plus13mon>>, <<Plus1y>>, <<Plus1mon, Plus1d>>, <<Plus1d, Plus1mon>>,
                 <<Plus1d, CaretMon>>, <<Plus1mon, CaretY>> }}

\* new Date("2025-01-08T09:00:00Z")
FIXED_NOW == UTC(2025, 0, 8, 9, 0, 0, 0)

TimeBases ==
    {FIXED_NOW, UTC(2024, 11, 31, 23, 59, 59, 999), UTC(2024, 1, 29, 12, 30, 30, 500),
     UTC(2025, 5, 30, 11, 29, 29, 499), UTC(2025, 0, 31, 9, 0, 0, 0)}

\* Every day of MaxYears years from 2024 on, at 09:00:00.000.
CalendarBases ==
    {TV(day, tm) : day \in MakeDay(2024, 0, 1)..(MakeDay(2024 + MaxYears, 0, 1) - 1),
                   tm \in {MakeTime(9, 0, 0, 0)}}

Inputs ==
    [expression : SyntaxExpressions \cup MarkerExpressions, now : {FIXED_NOW}]
        \cup [expression : TimeExpressions, now : TimeBases]
        \cup [expression : CalendarExpressions, now : CalendarBases]

ClockTimes == {FIXED_NOW, UTC(2024, 11, 31, 23, 59, 59, 999)}

(***************************************************************************)
(* State                                                                   *)
(***************************************************************************)
VARIABLES
    typeofExpression,  \* typeof expression
    expression,        \* the argument, when it is a string
    optionsNow,        \* options.now: a reference, 0 when it is no Date
    clock,             \* what new Date() reads
    heap,              \* the Date objects
    \* parse of src/unnamed/part_001
    pc, trimmed, parts, baseNow, result, tail, regexLastIndex, match, lastIndex,
    roundUnit, returned, thrown,
    \* parse of src/dateParser/parser.js
    b_pc, b_tail, b_result, b_regexLastIndex, b_match, b_consumedLength, b_returned,
    b_thrown

inputVars == <<typeofExpression, expression, optionsNow, clock>>
parseVars ==
    <<pc, trimmed, parts, baseNow, result, tail, regexLastIndex, match, lastIndex,
      roundUnit, returned, thrown>>
basicVars ==
    <<b_pc, b_tail, b_result, b_regexLastIndex, b_match, b_consumedLength, b_returned,
      b_thrown>>
vars == <<inputVars, heap, parseVars, basicVars>>

NoError == [kind |-> "", index |-> 0, text |-> <<>>]
Error(kind, index, text) == [kind |-> kind, index |-> index, text |-> text]

coreExpr == parts[1]
roundPartDefined == Len(parts) >= 2
roundPart == parts[2]

Init ==
    /\ \/ \E in \in Inputs :
            /\ typeofExpression = "string"
            /\ expression = in.expression
            /\ optionsNow = 1
            /\ heap = <<in.now>>
            /\ clock = FIXED_NOW
       \/ \E e \in {NOW_TOKEN, NOW_TOKEN \o Plus1d, NOW_TOKEN \o Plus1mon \o CaretD,
                    NOW_TOKEN \o JunkXYZ}, c \in ClockTimes :
            /\ typeofExpression = "string"
            /\ expression = e
            /\ optionsNow = 0
            /\ heap = <<>>
            /\ clock = c
       \/ /\ typeofExpression = "number"
          /\ expression = <<>>
          /\ optionsNow = 1
          /\ heap = <<FIXED_NOW>>
          /\ clock = FIXED_NOW
    /\ pc = "start"
    /\ trimmed = <<>>
    /\ parts = <<>>
    /\ baseNow = 0
    /\ result = 0
    /\ tail = <<>>
    /\ regexLastIndex = 0
    /\ match = NullMatch
    /\ lastIndex = 0
    /\ roundUnit = <<>>
    /\ returned = 0
    /\ thrown = NoError
    /\ b_pc = "start"
    /\ b_tail = <<>>
    /\ b_result = 0
    /\ b_regexLastIndex = 0
    /\ b_match = NullMatch
    /\ b_consumedLength = 0
    /\ b_returned = 0
    /\ b_thrown = NoError

(***************************************************************************)
(* parse of src/unnamed/part_001                                           *)
(***************************************************************************)
\* Lines 24-47: the type check, trim, split on "^", the marker check, the two
\* copies of the base time, the tail.
parse_begin ==
    /\ pc = "start"
    /\ UNCHANGED <<inputVars, basicVars, regexLastIndex, match, lastIndex, roundUnit,
                   returned>>
    /\ IF typeofExpression # "string"
       THEN /\ thrown' = Error("type", 0, <<>>)
            /\ pc' = "done"
            /\ UNCHANGED <<heap, trimmed, parts, baseNow, result, tail>>
       ELSE LET t == trim(expression)
                ps == split(t, "^", 2)
            IN  /\ trimmed' = t
                /\ parts' = ps
                /\ IF ~startsWith(ps[1], NOW_TOKEN)
                   THEN /\ thrown' = Error("start", 0, <<>>)
                        /\ pc' = "done"
                        /\ UNCHANGED <<heap, baseNow, result, tail>>
                   ELSE LET b == newDate(heap, IF optionsNow # 0 THEN heap[optionsNow]
                                               ELSE clock)
                            r == newDate(b.heap, b.heap[b.ref])
                        IN  /\ heap' = r.heap
                            /\ baseNow' = b.ref
                            /\ result' = r.ref
                            /\ tail' = slice(ps[1], Len(NOW_TOKEN))
                            /\ pc' = IF Len(tail') > 0 THEN "loop" ELSE "round"
                            /\ UNCHANGED thrown

\* Lines 57-74: one iteration of the while loop, for the next match of the
\* pattern in the tail.
parse_token ==
    /\ pc = "loop"
    /\ LET m == exec(tail, regexLastIndex)
       IN  /\ m.found
           /\ match' = m
           /\ regexLastIndex' = m.index + Len(m.text)
           /\ LET amount == parseInt(m.amountStr)
                  delta == IF m.op = "+" THEN amount ELSE -amount
                  a == applyOffsetUtc(heap, result, delta, m.unit)
              IN  IF amount = NaN
                  THEN /\ thrown' = Error("amount", 0, m.amountStr)
                       /\ pc' = "done"
                       /\ UNCHANGED <<heap, result, lastIndex>>
                  ELSE /\ heap' = a.heap
                       /\ result' = a.ref
                       /\ lastIndex' = regexLastIndex'
                       /\ UNCHANGED <<pc, thrown>>
    /\ UNCHANGED <<inputVars, basicVars, trimmed, parts, baseNow, tail, roundUnit,
                   returned>>

\* A variant of the check that accepts every tail.
tailParsed_always(last, t) == TRUE

\* The whole of the tail was parsed (line 77).
tailParsed(last, t) == last = Len(t)

\* Lines 57 and 76-84: exec finds no further match, and the check of lastIndex.
parse_checkTail ==
    /\ pc = "loop"
    /\ ~exec(tail, regexLastIndex).found
    /\ match' = NullMatch
    /\ regexLastIndex' = 0
    /\ IF ~tailParsed(lastIndex, tail)
       THEN /\ thrown' = Error("syntax", indexOf(trimmed, tail) + lastIndex,
                               slice(tail, lastIndex))
            /\ pc' = "done"
       ELSE /\ pc' = "round"
            /\ UNCHANGED thrown
    /\ UNCHANGED <<inputVars, basicVars, heap, trimmed, parts, baseNow, result, tail,
                   lastIndex, roundUnit, returned>>

\* Lines 87-98: the optional rounding, and the return.
parse_round ==
    /\ pc = "round"
    /\ pc' = "done"
    /\ IF roundPartDefined
       THEN LET u == trim(roundPart)
                r == roundUtc(heap, result, u)
            IN  /\ roundUnit' = u
                /\ IF u = <<>>
                   THEN /\ thrown' = Error("roundEmpty", 0, <<>>)
                        /\ UNCHANGED <<heap, result, returned>>
                   ELSE /\ heap' = r.heap
                        /\ IF r.threw
                           THEN /\ thrown' = Error("roundUnit", 0, u)
                                /\ UNCHANGED <<result, returned>>
                           ELSE /\ result' = r.ref
                                /\ returned' = r.ref
                                /\ UNCHANGED thrown
       ELSE /\ returned' = result
            /\ UNCHANGED <<heap, result, roundUnit, thrown>>
    /\ UNCHANGED <<inputVars, basicVars, trimmed, parts, baseNow, tail, regexLastIndex,
                   match, lastIndex>>

(***************************************************************************)
(* parse of src/dateParser/parser.js, called with the same arguments once  *)
(* the first call is over.                                                 *)
(***************************************************************************)
\* Lines 22-47.
basic_begin ==
    /\ pc = "done"
    /\ b_pc = "start"
    /\ UNCHANGED <<inputVars, parseVars, b_regexLastIndex, b_match, b_consumedLength>>
    /\ IF typeofExpression # "string"
       THEN /\ b_thrown' = Error("type", 0, <<>>)
            /\ b_pc' = "done"
            /\ UNCHANGED <<heap, b_tail, b_result, b_returned>>
       ELSE LET t == trim(expression)
            IN  IF ~startsWith(t, NOW_TOKEN)
                THEN /\ b_thrown' = Error("start", 0, <<>>)
                     /\ b_pc' = "done"
                     /\ UNCHANGED <<heap, b_tail, b_result, b_returned>>
                ELSE LET b == newDate(heap, IF optionsNow # 0 THEN heap[optionsNow]
                                            ELSE clock)
                         r == newDate(b.heap, b.heap[b.ref])
                     IN  /\ heap' = r.heap
                         /\ b_result' = r.ref
                         /\ b_tail' = slice(t, Len(NOW_TOKEN))
                         /\ IF Len(b_tail') = 0
                            THEN b_returned' = r.ref /\ b_pc' = "done"
                            ELSE b_pc' = "loop" /\ UNCHANGED b_returned
                         /\ UNCHANGED b_thrown

\* Lines 55-72.
basic_token ==
    /\ b_pc = "loop"
    /\ LET m == exec(b_tail, b_regexLastIndex)
       IN  /\ m.found
           /\ b_match' = m
           /\ b_regexLastIndex' = m.index + Len(m.text)
           /\ LET amount == parseInt(m.amountStr)
                  delta == IF m.op = "+" THEN amount ELSE -amount
                  a == applyOffsetUtc(heap, b_result, delta, m.unit)
              IN  IF amount = NaN
                  THEN /\ b_thrown' = Error("amount", 0, m.amountStr)
                       /\ b_pc' = "done"
                       /\ UNCHANGED <<heap, b_result, b_consumedLength>>
                  ELSE /\ heap' = a.heap
                       /\ b_result' = a.ref
                       /\ b_consumedLength' = b_consumedLength + Len(m.text)
                       /\ UNCHANGED <<b_pc, b_thrown>>
    /\ UNCHANGED <<inputVars, parseVars, b_tail, b_returned>>

\* Lines 55 and 74-82.
basic_finish ==
    /\ b_pc = "loop"
    /\ ~exec(b_tail, b_regexLastIndex).found
    /\ b_match' = NullMatch
    /\ b_regexLastIndex' = 0
    /\ b_pc' = "done"
    /\ IF b_consumedLength # Len(b_tail)
       THEN /\ b_thrown' = Error("syntax", 0, slice(b_tail, b_consumedLength))
            /\ UNCHANGED b_returned
       ELSE /\ b_returned' = b_result
            /\ UNCHANGED b_thrown
    /\ UNCHANGED <<inputVars, parseVars, heap, b_tail, b_result, b_consumedLength>>

Next ==
    \/ parse_begin
    \/ parse_token
    \/ parse_checkTail
    \/ parse_round
    \/ basic_begin
    \/ basic_token
    \/ basic_finish

Spec == Init /\ [][Next]_vars

(***************************************************************************)
(* The grammar and the calendar, stated apart from the implementation.     *)
(***************************************************************************)
Units == {<<"s">>, <<"m">>, <<"h">>, <<"d">>, <<"m", "o", "n">>, <<"y">>}

\* t is one token: a sign, one or more digits, a unit.
IsToken(t) ==
    \E u \in Units :
        /\ Len(t) >= 2 + Len(u)
        /\ t[1] \in {"+", "-"}
        /\ \A i \in 2..(Len(t) - Len(u)) : t[i] \in Digits
        /\ SubSeq(t, Len(t) - Len(u) + 1, Len(t)) = u

RECURSIVE IsTokenChain(_)
IsTokenChain(s) ==
    \/ s = <<>>
    \/ \E k \in 1..Len(s) : IsToken(SubSeq(s, 1, k)) /\ IsTokenChain(slice(s, k))

\* The tokens of a chain, in textual order.
RECURSIVE ChainTokens(_)
ChainTokens(s) ==
    IF s = <<>> THEN <<>>
    ELSE LET k == CHOOSE j \in 1..Len(s) :
                      IsToken(SubSeq(s, 1, j)) /\ IsTokenChain(slice(s, j))
         IN  <<SubSeq(s, 1, k)>> \o ChainTokens(slice(s, k))

TokenUnit(t) == CHOOSE u \in Units :
    /\ Len(t) >= 2 + Len(u)
    /\ SubSeq(t, Len(t) - Len(u) + 1, Len(t)) = u
    /\ \A i \in 2..(Len(t) - Len(u)) : t[i] \in Digits

RECURSIVE Decimal(_)
Decimal(ds) ==
    IF ds = <<>> THEN 0
    ELSE 10 * Decimal(SubSeq(ds, 1, Len(ds) - 1)) + DigitValue(ds[Len(ds)])

TokenDelta(t) ==
    LET n == Decimal(SubSeq(t, 2, Len(t) - Len(TokenUnit(t))))
    IN  IF t[1] = "+" THEN n ELSE -n

\* Length of the longest prefix of s that is a chain of tokens.
CoveredLength(s) ==
    CHOOSE k \in 0..Len(s) :
        /\ IsTokenChain(SubSeq(s, 1, k))
        /\ \A j \in (k + 1)..Len(s) : ~IsTokenChain(SubSeq(s, 1, j))

HasCaret(s) == \E i \in 1..Len(s) : s[i] = "^"

\* The text before the first "^", and the text after it.
BeforeCaret(s) == IF HasCaret(s) THEN SubSeq(s, 1, indexOf(s, <<"^">>)) ELSE s
AfterCaret(s) == slice(s, indexOf(s, <<"^">>) + 1)

\* The text of the call's expression after the marker and before any "^".
ClaimTail == slice(BeforeCaret(trim(expression)), Len(NOW_TOKEN))

StartsWithMarker ==
    typeofExpression = "string" /\ startsWith(BeforeCaret(trim(expression)), NOW_TOKEN)

\* The base time of the call.
Base == IF optionsNow # 0 THEN heap[optionsNow] ELSE clock

Returned == pc = "done" /\ returned # 0
Threw == pc = "done" /\ thrown.kind # ""

\* Milliseconds in one unit of s, m, h, d.
UnitMs(u) ==
    CASE u = <<"s">> -> 1000 [] u = <<"m">> -> 60000 [] u = <<"h">> -> 3600000
      [] u = <<"d">> -> 86400000

\* The instant k milliseconds after t.
AddMs(t, k) == TV(t.day + ((t.tm + k) \div 86400000), (t.tm + k) % 86400000)

RECURSIVE AddTokens(_, _)
AddTokens(t, toks) ==
    IF toks = <<>> THEN t
    ELSE AddTokens(AddMs(t, TokenDelta(Head(toks)) * UnitMs(TokenUnit(Head(toks)))),
                   Tail(toks))

DaysInMonth(y, m) ==
    IF m = 1 THEN (IF DaysInYear(y) = 366 THEN 29 ELSE 28)
    ELSE IF m \in {3, 5, 8, 10} THEN 30 ELSE 31

\* 00:00:00.000 on day 1 of the month after month m of year y.
NextMonthStart(y, m) == IF m = 11 THEN UTC(y + 1, 0, 1, 0, 0, 0, 0)
                        ELSE UTC(y, m + 1, 1, 0, 0, 0, 0)

\* t moved by delta months: the same day and time of day in the target month,
\* the days the target month lacks spilling into the month after it.
MonthShift(t, delta) ==
    LET y == getUTCFullYear(t) + ((getUTCMonth(t) + delta) \div 12)
        m == (getUTCMonth(t) + delta) % 12
        d == getUTCDate(t)
    IN  IF d <= DaysInMonth(y, m)
        THEN TV(MakeDay(y, m, d), t.tm)
        ELSE TV(NextMonthStart(y, m).day + (d - DaysInMonth(y, m)) - 1, t.tm)

(***************************************************************************)
(* Claims                                                                  *)
(***************************************************************************)

\* C1: when the text after "now()" (and before any "^") is not a concatenation
\* of tokens sign digits unit, parse of part_001 throws and returns no Date.
C1_RejectionCompleteness ==
    (pc = "done" /\ StartsWithMarker /\ ~IsTokenChain(ClaimTail)) => returned = 0

\* C2: parse returns a Date for an expression with a "^" only if everything
\* after the first "^" is non-empty and names one of the units.
C2_RoundingSuffixValidated ==
    (Returned /\ HasCaret(trim(expression))) => AfterCaret(trim(expression)) \in Units

\* C3: with no rounding suffix and tokens of units s, m, h, d only, parse
\* returns base + the sum of sign * magnitude * L(unit) milliseconds.
C3_LinearOffsets ==
    (/\ Returned
     /\ ~HasCaret(trim(expression))
     /\ IsTokenChain(ClaimTail)
     /\ \A i \in 1..Len(ChainTokens(ClaimTail)) :
            TokenUnit(ChainTokens(ClaimTail)[i]) \in {<<"s">>, <<"m">>, <<"h">>, <<"d">>})
    => heap[returned] = AddTokens(Base, ChainTokens(ClaimTail))

C3_Witness ==
    /\ Returned
    /\ expression = NOW_TOKEN \o Plus25h \o Minus2d
    /\ Base = UTC(2024, 11, 31, 23, 59, 59, 999)
    /\ heap[returned] = UTC(2024, 11, 31, 0, 59, 59, 999)

\* C4: rounding to month gives 00:00:00.000 on day 1 of the following month
\* when the day of month is above 15, and of the same month otherwise.
C4_RoundMonth ==
    [][(pc = "round" /\ pc' = "done" /\ returned' # 0 /\ roundUnit' = <<"m", "o", "n">>)
       => heap'[returned'] =
            IF getUTCDate(heap[result]) > 15
            THEN NextMonthStart(getUTCFullYear(heap[result]), getUTCMonth(heap[result]))
            ELSE UTC(getUTCFullYear(heap[result]), getUTCMonth(heap[result]), 1, 0, 0, 0, 0)]_vars

\* C5 as stated: rounding to year gives 1 January of the next year from June on.
C5_RoundYear_FromJune ==
    [][(pc = "round" /\ pc' = "done" /\ returned' # 0 /\ roundUnit' = <<"y">>)
       => heap'[returned'] =
            UTC(getUTCFullYear(heap[result])
                    + (IF getUTCMonth(heap[result]) >= 5 THEN 1 ELSE 0),
                0, 1, 0, 0, 0, 0)]_vars

\* C5 amended: rounding to year gives 1 January 00:00:00.000 of the next year
\* when the month is July or later (index >= 6), and of the same year when the
\* month is June or earlier.
C5_RoundYear_FromJuly ==
    [][(pc = "round" /\ pc' = "done" /\ returned' # 0 /\ roundUnit' = <<"y">>)
       => heap'[returned'] =
            UTC(getUTCFullYear(heap[result])
                    + (IF getUTCMonth(heap[result]) >= 6 THEN 1 ELSE 0),
                0, 1, 0, 0, 0, 0)]_vars

C5_Witness ==
    /\ Returned
    /\ expression = NOW_TOKEN \o CaretY
    /\ getUTCMonth(Base) = 5
    /\ heap[returned] = UTC(getUTCFullYear(Base), 0, 1, 0, 0, 0, 0)

\* C6: no step of either parse changes the time value of a Date that exists
\* already (the caller's base time, the argument of applyOffsetUtc and of
\* roundUtc), and the Date returned is not the caller's.
C6_BaseNeverMutated ==
    [][/\ \A o \in 1..Len(heap) : heap'[o] = heap[o]
       /\ returned' # 0 => returned' # optionsNow
       /\ b_returned' # 0 => b_returned' # optionsNow]_vars

C6_Witness ==
    /\ Returned
    /\ optionsNow # 0
    /\ lastIndex > 0
    /\ roundUnit \in Units
    /\ heap[returned] # heap[optionsNow]

\* C7 as stated: no offset has been applied while the tail is still being
\* scanned, nor in a call that ends by rejecting the expression.
C7_ValidationFirst ==
    /\ pc = "loop" => lastIndex = 0
    /\ Threw => lastIndex = 0

\* C7 amended: offsets are applied to a private copy while the tail is scanned;
\* rounding is reached only after the check of line 77 passed, a Date is
\* returned only after that check and the check of the rounding unit passed,
\* and a call that throws returns no Date.
C7_NoResultBeforeValidation ==
    /\ roundUnit # <<>> => lastIndex = Len(tail)
    /\ returned # 0 =>
          /\ lastIndex = Len(tail)
          /\ roundPartDefined => roundUnit \in Units
    /\ thrown.kind # "" => returned = 0

C7_Witness ==
    /\ Threw
    /\ thrown.kind \in {"syntax", "roundUnit"}
    /\ lastIndex > 0
    /\ returned = 0

\* C8: a mon token moves the month with carry into the year, keeps the day and
\* the time of day when the target month has the day and spills the excess
\* days into the following month otherwise; tokens apply left to right, so on
\* 2025-01-31T09:00:00.000Z +1mon+1d gives 4 March and +1d+1mon gives 1 March.
C8_MonthStep ==
    (pc = "loop" /\ match'.found /\ match'.unit = <<"m", "o", "n">>)
    => heap'[result'] =
         MonthShift(heap[result],
                    IF match'.op = "+" THEN Decimal(match'.amountStr)
                    ELSE -Decimal(match'.amountStr))

C8_Examples ==
    (Returned /\ Base = UTC(2025, 0, 31, 9, 0, 0, 0)) =>
        /\ expression = NOW_TOKEN \o Plus1mon \o Plus1d
              => heap[returned] = UTC(2025, 2, 4, 9, 0, 0, 0)
        /\ expression = NOW_TOKEN \o Plus1d \o Plus1mon
              => heap[returned] = UTC(2025, 2, 1, 9, 0, 0, 0)
        /\ expression = NOW_TOKEN \o Plus1mon
              => heap[returned] = UTC(2025, 2, 3, 9, 0, 0, 0)

\* C8: every mon token step rolls forward as MonthShift says, and the three
\* results on 31 January 2025 are those of left-to-right application.
C8_MonthRollForward == [][C8_MonthStep /\ C8_Examples']_vars

C8_Witness ==
    /\ Returned
    /\ Base = UTC(2025, 0, 31, 9, 0, 0, 0)
    /\ expression = NOW_TOKEN \o Plus1mon \o Plus1d
    /\ heap[returned] = UTC(2025, 2, 4, 9, 0, 0, 0)

\* C9: the invalid-syntax error names the part of the tail from the first
\* character no token covers, and that character's index in the trimmed
\* expression (5 plus its offset in the tail).
C9_ErrorPosition ==
    (pc = "done" /\ thrown.kind = "syntax") =>
        /\ thrown.text = slice(ClaimTail, CoveredLength(ClaimTail))
        /\ thrown.index = Len(NOW_TOKEN) + CoveredLength(ClaimTail)

\* C10: on an expression with no "^" the two parse implementations both throw
\* or both return the same instant.
C10_ParsersAgree ==
    (pc = "done" /\ b_pc = "done" /\ typeofExpression = "string" /\ ~HasCaret(expression))
    => /\ (returned # 0) <=> (b_returned # 0)
       /\ returned # 0 => heap[returned] = heap[b_returned]

====
